---- MODULE Spec2Model ----
(***************************************************************************)
(* Model of generate_thumbnail/__init__.py: a watchdog handler that keeps  *)
(* a thumbnail next to every image, PDF and EPUB of a watched directory.   *)
(*                                                                         *)
(* Paths are strings; only file names are modelled, because every path the *)
(* program computes (with_stem, with_suffix, with_name) stays in the       *)
(* directory of the path it starts from.                                   *)
(***************************************************************************)
EXTENDS Integers, Sequences, FiniteSets, TLC

VARIABLES
    files,      \* the watched directory: file name -> content
    queue,      \* notifications the observer has not yet dispatched, oldest first
    last,       \* what the most recent handler call did
    origin,     \* thumbnail on disk -> the path whose creation event wrote it
    opsLeft,    \* changes the user may still make
    catalog,    \* the files the user chooses from
    thread,     \* the observer thread: idle, or where its handler call waits
    pool        \* the calls that worker threads are running for asyncio.to_thread

vars == <<files, queue, last, origin, opsLeft, catalog, thread, pool>>

(***************************************************************************)
(* Bounds of the model.                                                    *)
(***************************************************************************)
\* changes (creations, deletions) the user makes to the directory
MaxUserOps == 3
\* notifications waiting in the observer's queue
MaxQueue == 2
\* longest file name a handler is followed on (caps the chain of thumbnails)
MaxNameLen == 20

(***************************************************************************)
(* str and pathlib.PurePath, on file names.                                *)
(***************************************************************************)
\* the value of dict.get on a missing key
None == "<None>"

\* s[i] (1-based)
CharAt(s, i) == SubSeq(s, i, i)

\* str.lower on one character (ASCII)
LowerChar(c) ==
    CASE c = "A" -> "a" [] c = "B" -> "b" [] c = "C" -> "c" [] c = "D" -> "d"
      [] c = "E" -> "e" [] c = "F" -> "f" [] c = "G" -> "g" [] c = "H" -> "h"
      [] c = "I" -> "i" [] c = "J" -> "j" [] c = "K" -> "k" [] c = "L" -> "l"
      [] c = "M" -> "m" [] c = "N" -> "n" [] c = "O" -> "o" [] c = "P" -> "p"
      [] c = "Q" -> "q" [] c = "R" -> "r" [] c = "S" -> "s" [] c = "T" -> "t"
      [] c = "U" -> "u" [] c = "V" -> "v" [] c = "W" -> "w" [] c = "X" -> "x"
      [] c = "Y" -> "y" [] c = "Z" -> "z"
      [] OTHER -> c

\* str.lower
RECURSIVE Lower(_)
Lower(s) ==
    IF Len(s) = 0 THEN s
    ELSE LowerChar(CharAt(s, 1)) \o Lower(SubSeq(s, 2, Len(s)))

\* str.startswith
StartsWith(s, p) == Len(s) >= Len(p) /\ SubSeq(s, 1, Len(p)) = p

\* str.endswith
EndsWith(s, p) == Len(s) >= Len(p) /\ SubSeq(s, Len(s) - Len(p) + 1, Len(s)) = p

\* str.rfind(c): the last 1-based position of character c in s, 0 when absent
\* (Python's 0-based index plus one)
RFind(s, c) ==
    LET hits == {i \in 1..Len(s) : CharAt(s, i) = c}
    IN  IF hits = {} THEN 0 ELSE CHOOSE i \in hits : \A j \in hits : j <= i

\* PurePath.suffix: from the last dot on, unless that dot is the first or
\* the last character of the name
Suffix(name) ==
    LET i == RFind(name, ".")
    IN  IF 1 < i /\ i < Len(name) THEN SubSeq(name, i, Len(name)) ELSE ""

\* PurePath.stem: the name without its suffix
Stem(name) ==
    LET i == RFind(name, ".")
    IN  IF 1 < i /\ i < Len(name) THEN SubSeq(name, 1, i - 1) ELSE name

\* PurePath.with_name: same directory, new final component
WithName(name, new) == new

\* PurePath.with_stem(stem) is with_name(stem + self.suffix)
WithStem(name, stem) == WithName(name, stem \o Suffix(name))

\* PurePath.with_suffix: the old suffix, if any, is cut off and the new one appended
WithSuffix(name, suffix) ==
    LET old == Suffix(name)
    IN  IF old = "" THEN name \o suffix
        ELSE SubSeq(name, 1, Len(name) - Len(old)) \o suffix

(***************************************************************************)
(* pathlib on the names of archive members (PurePosixPath).                *)
(***************************************************************************)
\* position of the first "/" of s, 0 when there is none
FirstSlash(s) ==
    LET hits == {i \in 1..Len(s) : CharAt(s, i) = "/"}
    IN  IF hits = {} THEN 0 ELSE CHOOSE i \in hits : \A j \in hits : i <= j

\* the components of a path: split at "/", empty and "." components dropped
RECURSIVE PathParts(_)
PathParts(s) ==
    LET i == FirstSlash(s)
        head == IF i = 0 THEN s ELSE SubSeq(s, 1, i - 1)
        kept == IF head = "" \/ head = "." THEN <<>> ELSE <<head>>
    IN  IF Len(s) = 0 THEN <<>>
        ELSE IF i = 0 THEN kept
        ELSE kept \o PathParts(SubSeq(s, i + 1, Len(s)))

\* Path(s): whether it is anchored at "/", and its components
PathOf(s) == [abs |-> StartsWith(s, "/"), parts |-> PathParts(s)]

\* Path.parent: the path without its final component
PathParent(p) ==
    IF Len(p.parts) = 0 THEN p
    ELSE [abs |-> p.abs, parts |-> SubSeq(p.parts, 1, Len(p.parts) - 1)]

\* Path / str: an absolute right operand replaces the left one
PathJoin(p, s) ==
    LET q == PathOf(s)
    IN  IF q.abs THEN q ELSE [abs |-> p.abs, parts |-> p.parts \o q.parts]

RECURSIVE JoinParts(_)
JoinParts(parts) ==
    IF Len(parts) = 0 THEN ""
    ELSE IF Len(parts) = 1 THEN parts[1]
    ELSE parts[1] \o "/" \o JoinParts(Tail(parts))

\* str(Path)
PathStr(p) ==
    IF p.abs THEN "/" \o JoinParts(p.parts)
    ELSE IF Len(p.parts) = 0 THEN "."
    ELSE JoinParts(p.parts)

(***************************************************************************)
(* File contents.  What a decoder makes of a file depends on its content,  *)
(* not on its name.  An EPUB's content is its archive: member name -> data,*)
(* a datum being an XML document (with its rootfile, meta and item         *)
(* elements in document order, each an attribute map), an image, or        *)
(* neither.                                                                *)
(***************************************************************************)
NoArch == [zip |-> FALSE, entries |-> <<>>]

Content(tag) == [tag |-> tag, arch |-> NoArch, pages |-> 0]
\* a raster image PIL decodes
ImageContent == Content("image")
\* a PDF of one page that renders
PdfContent == [Content("pdf") EXCEPT !.pages = 1]
\* a PDF of three pages that render
LongPdfContent == [Content("pdf") EXCEPT !.pages = 3]
\* a PDF from which convert_from_path returns no page
EmptyPdfContent == Content("pdf0")
\* bytes no decoder accepts
JunkContent == Content("junk")
\* a file another process holds locked
LockedContent == Content("locked")
\* a directory
DirContent == Content("dir")
\* a zip archive
EpubContent(arch) == [tag |-> "epub", arch |-> arch, pages |-> 0]

XmlData(rootfiles, metas, items) ==
    [xml |-> TRUE, img |-> FALSE, rootfiles |-> rootfiles, metas |-> metas, items |-> items]
ImageData == [xml |-> FALSE, img |-> TRUE, rootfiles |-> <<>>, metas |-> <<>>, items |-> <<>>]
JunkData == [xml |-> FALSE, img |-> FALSE, rootfiles |-> <<>>, metas |-> <<>>, items |-> <<>>]

\* dict.get(key): None when the key is missing
Get(attrib, key) == IF key \in DOMAIN attrib THEN attrib[key] ELSE None

\* Python truth of an optional string: None and "" are false
Truthy(v) == v # None /\ v # ""

(***************************************************************************)
(* Exceptions.  A function body ends with "none" or with the class of the  *)
(* exception it raised; a handler catches the classes it names.            *)
(***************************************************************************)
\* the classes the model raises, all of them subclasses of Exception
ExceptionClasses ==
    {"FileNotFoundError", "IsADirectoryError", "PermissionError", "OSError",
     "UnidentifiedImageError", "PDFPageCountError", "BadZipFile", "KeyError",
     "ParseError", "ValueError"}

\* the outcome of an extractor: the exception its body raised, whether that
\* exception left the function, the file written, the part of the document
\* the thumbnail shows (the archive member read as the cover, the page
\* rendered), and the line printed
Outcome(exc, caught, wrote, read, msg) ==
    [exc |-> exc, escaped |-> exc # "none" /\ ~caught, wrote |-> wrote,
     read |-> read, msg |-> msg]

\* builtins.open(path) for reading: the exception it raises, "none" if it opens
OpenError(fs, path) ==
    IF path \notin DOMAIN fs THEN "FileNotFoundError"
    ELSE IF fs[path].tag = "dir" THEN "IsADirectoryError"
    ELSE IF fs[path].tag = "locked" THEN "PermissionError"
    ELSE "none"

\* builtins.open(path) for writing, as Image.save does: the exception it
\* raises, "none" if the file is written
SaveError(fs, path) ==
    IF path \in DOMAIN fs /\ fs[path].tag = "dir" THEN "IsADirectoryError"
    ELSE "none"

(***************************************************************************)
(* The thumbnail paths and the three extractors.  fs is the directory as   *)
(* the call finds it.                                                      *)
(***************************************************************************)
\* thumbnail_exists: the path tested keeps the suffix of file_path
thumbnail_exists_path(file_path) ==
    WithStem(file_path, Stem(file_path) \o "_thumbnail")

thumbnail_exists(fs, file_path) == thumbnail_exists_path(file_path) \in DOMAIN fs

\* generate_image_thumbnail saving over the image itself
image_thumbnail_path_in_place(image_path) == image_path

\* the path generate_image_thumbnail saves to
image_thumbnail_path(image_path) ==
    WithStem(image_path, Stem(image_path) \o "_thumbnail")

\* the path generate_pdf_thumbnail saves to
pdf_thumbnail_path(pdf_path) ==
    WithSuffix(WithStem(pdf_path, Stem(pdf_path) \o "_thumbnail"), ".png")

\* the path generate_epub_thumbnail saves to
epub_thumbnail_path(epub_path) ==
    WithSuffix(WithStem(epub_path, Stem(epub_path) \o "_thumbnail"), ".png")

\* get_thumbnail_path: the path on_deleted removes
get_thumbnail_path(file_path) ==
    WithName(file_path, Stem(file_path) \o "_thumbnail" \o ".png")

generate_image_thumbnail(fs, image_path) ==
    LET thumbnail_path == image_thumbnail_path(image_path)
        opened == OpenError(fs, image_path)
        exc == IF opened # "none" THEN opened
               ELSE IF fs[image_path].tag # "image" THEN "UnidentifiedImageError"
               ELSE SaveError(fs, thumbnail_path)
    IN  Outcome(exc, exc \in ExceptionClasses,
                IF exc = "none" THEN {thumbnail_path} ELSE {}, None,
                IF exc = "none" THEN "image_ok" ELSE "image_error")

\* the page a thumbnail shows
PageName(n) == "page " \o ToString(n)

\* convert_from_path(pdf_path, first_page, last_page): the exception it
\* raises ("none" when it returns), the number of page images it returns and
\* the page the first of them shows
convert_from_path(fs, pdf_path, first_page, last_page) ==
    LET opened == OpenError(fs, pdf_path)
        Raise(e) == [exc |-> e, pages |-> 0, first |-> 0]
        rendered == {n \in first_page..last_page : n <= fs[pdf_path].pages}
    IN  IF opened = "PermissionError" THEN Raise("PermissionError")
        ELSE IF opened # "none" THEN Raise("PDFPageCountError")
        ELSE IF fs[pdf_path].tag \in {"pdf", "pdf0"}
            THEN [exc |-> "none", pages |-> Cardinality(rendered),
                  first |-> IF rendered = {} THEN 0 ELSE first_page]
        ELSE Raise("PDFPageCountError")

\* generate_pdf_thumbnail asking for the second page
generate_pdf_thumbnail_second_page(fs, pdf_path) ==
    LET images == convert_from_path(fs, pdf_path, 2, 2)
        thumbnail_path == pdf_thumbnail_path(pdf_path)
        exc == IF images.exc # "none" THEN images.exc
               ELSE IF images.pages > 0 THEN SaveError(fs, thumbnail_path)
               ELSE "none"
        saved == exc = "none" /\ images.pages > 0
    IN  Outcome(exc, exc = "PermissionError" \/ exc \in ExceptionClasses,
                IF saved THEN {thumbnail_path} ELSE {},
                IF saved THEN PageName(images.first) ELSE None,
                IF exc = "PermissionError" THEN "pdf_permission"
                ELSE IF exc # "none" THEN "pdf_error"
                ELSE IF images.pages > 0 THEN "pdf_ok" ELSE "pdf_empty")

generate_pdf_thumbnail(fs, pdf_path) ==
    LET images == convert_from_path(fs, pdf_path, 1, 1)
        thumbnail_path == pdf_thumbnail_path(pdf_path)
        exc == IF images.exc # "none" THEN images.exc
               ELSE IF images.pages > 0 THEN SaveError(fs, thumbnail_path)
               ELSE "none"
        saved == exc = "none" /\ images.pages > 0
    IN  Outcome(exc, exc = "PermissionError" \/ exc \in ExceptionClasses,
                IF saved THEN {thumbnail_path} ELSE {},
                IF saved THEN PageName(images.first) ELSE None,
                IF exc = "PermissionError" THEN "pdf_permission"
                ELSE IF exc # "none" THEN "pdf_error"
                ELSE IF images.pages > 0 THEN "pdf_ok" ELSE "pdf_empty")

\* the first index of a for/break loop's hits, 0 when there is none
FirstIndex(hits) ==
    IF hits = {} THEN 0 ELSE CHOOSE i \in hits : \A j \in hits : i <= j

\* ET.fromstring(archive member): the exception raised on the way
ParseMemberError(entries, member) ==
    IF member \notin DOMAIN entries THEN "KeyError"
    ELSE IF ~entries[member].xml THEN "ParseError"
    ELSE "none"

\* lines 91-96: the content of the first meta named "cover"
find_cover_id(opf_root) ==
    LET metas == opf_root.metas
        i == FirstIndex({k \in 1..Len(metas) : Get(metas[k], "name") = "cover"})
    IN  IF i = 0 THEN None ELSE Get(opf_root.metas[i], "content")

\* lines 100-106: the href of the first item whose id is cover_id
find_cover_href(opf_root, cover_id) ==
    LET items == opf_root.items
        i == FirstIndex({k \in 1..Len(items) : Get(items[k], "id") = cover_id})
    IN  IF i = 0 THEN None ELSE Get(opf_root.items[i], "href")

\* cover_member with the href taken from the archive root
cover_member_from_root(opf_path, cover_href) == PathStr(PathOf(cover_href))

\* line 110: the archive member the cover is read from
cover_member(opf_path, cover_href) ==
    PathStr(PathJoin(PathParent(PathOf(opf_path)), cover_href))

\* lines 72-127, the body of the try: the exception raised ("none" when the
\* body ends), the member read as the cover, the file written, the line printed
epub_body(fs, epub_path) ==
    LET Raise(e) == [exc |-> e, read |-> None, wrote |-> {}, msg |-> "epub_error"]
        opened == OpenError(fs, epub_path)
        arch == fs[epub_path].arch
        entries == arch.entries
        container == ParseMemberError(entries, "META-INF/container.xml")
        root == entries["META-INF/container.xml"]
        rootfile == root.rootfiles[1]
        opf_path == rootfile["full-path"]
        opf == ParseMemberError(entries, opf_path)
        opf_root == entries[opf_path]
        cover_id == find_cover_id(opf_root)
        cover_href == find_cover_href(opf_root, cover_id)
        cover_path == cover_member(opf_path, cover_href)
        thumbnail_path == epub_thumbnail_path(epub_path)
        saved == SaveError(fs, thumbnail_path)
    IN  IF opened # "none" THEN Raise(opened)
        ELSE IF ~arch.zip THEN Raise("BadZipFile")
        ELSE IF container # "none" THEN Raise(container)
        ELSE IF Len(root.rootfiles) = 0 THEN Raise("ValueError")
        ELSE IF "full-path" \notin DOMAIN rootfile THEN Raise("KeyError")
        ELSE IF opf # "none" THEN Raise(opf)
        ELSE IF ~Truthy(cover_id)
            THEN [exc |-> "none", read |-> None, wrote |-> {}, msg |-> "epub_no_cover_id"]
        ELSE IF ~Truthy(cover_href)
            THEN [exc |-> "none", read |-> None, wrote |-> {}, msg |-> "epub_no_cover_file"]
        ELSE IF cover_path \notin DOMAIN entries THEN Raise("KeyError")
        ELSE IF ~entries[cover_path].img
            THEN [Raise("UnidentifiedImageError") EXCEPT !.read = cover_path]
        ELSE IF saved # "none" THEN [Raise(saved) EXCEPT !.read = cover_path]
        ELSE [exc |-> "none", read |-> cover_path, wrote |-> {thumbnail_path},
              msg |-> "epub_ok"]

\* generate_epub_thumbnail catching only zipfile.BadZipFile and ET.ParseError
generate_epub_thumbnail_narrow(fs, epub_path) ==
    LET b == epub_body(fs, epub_path)
    IN  Outcome(b.exc, b.exc \in {"BadZipFile", "ParseError"}, b.wrote, b.read, b.msg)

\* lines 68-129: the body under "except Exception"
generate_epub_thumbnail(fs, epub_path) ==
    LET b == epub_body(fs, epub_path)
    IN  Outcome(b.exc, b.exc \in ExceptionClasses, b.wrote, b.read, b.msg)

(***************************************************************************)
(* NewFileHandler.                                                         *)
(***************************************************************************)
NoOutcome(msg) == Outcome("none", TRUE, {}, None, msg)

\* process_new_file comparing the suffix as written, without lower()
process_new_file_as_written(fs, new_file_path) ==
    LET suffix == Suffix(new_file_path)
    IN  IF thumbnail_exists(fs, new_file_path)
            THEN [extractor |-> "none", out |-> NoOutcome("skip_exists")]
        ELSE IF suffix \in {".png", ".jpg", ".jpeg", ".bmp", ".gif"}
            THEN [extractor |-> "image",
                  out |-> generate_image_thumbnail(fs, new_file_path)]
        ELSE IF suffix = ".pdf"
            THEN [extractor |-> "pdf",
                  out |-> generate_pdf_thumbnail(fs, new_file_path)]
        ELSE IF suffix = ".epub"
            THEN [extractor |-> "epub",
                  out |-> generate_epub_thumbnail(fs, new_file_path)]
        ELSE [extractor |-> "none", out |-> NoOutcome("")]

\* process_new_file: the extractor chosen and its outcome
process_new_file(fs, new_file_path) ==
    LET suffix == Lower(Suffix(new_file_path))
    IN  IF thumbnail_exists(fs, new_file_path)
            THEN [extractor |-> "none", out |-> NoOutcome("skip_exists")]
        ELSE IF suffix \in {".png", ".jpg", ".jpeg", ".bmp", ".gif"}
            THEN [extractor |-> "image",
                  out |-> generate_image_thumbnail(fs, new_file_path)]
        ELSE IF suffix = ".pdf"
            THEN [extractor |-> "pdf",
                  out |-> generate_pdf_thumbnail(fs, new_file_path)]
        ELSE IF suffix = ".epub"
            THEN [extractor |-> "epub",
                  out |-> generate_epub_thumbnail(fs, new_file_path)]
        ELSE [extractor |-> "none", out |-> NoOutcome("")]

\* is_ignored without the test for names that start with "."
is_ignored_no_hidden(new_file_path) ==
    \/ Lower(Suffix(new_file_path)) \in {".pyc", ".log", ".tmp"}
    \/ EndsWith(new_file_path, "_thumbnail.png")

\* lines 167-179: the files on_created skips
is_ignored(new_file_path) ==
    \/ Lower(Suffix(new_file_path)) \in {".pyc", ".log", ".tmp"}
    \/ StartsWith(new_file_path, ".")
    \/ EndsWith(new_file_path, "_thumbnail.png")

\* on_created(event): the extractor run, if any, and its outcome
on_created(fs, event) ==
    IF event.dir THEN [extractor |-> "none", out |-> NoOutcome("")]
    ELSE IF is_ignored(event.path)
        THEN [extractor |-> "none", out |-> NoOutcome("skip_ignored")]
    ELSE process_new_file(fs, event.path)

\* on_deleted(event): the file removed, if any, and the exception os.remove raised
on_deleted(fs, event) ==
    LET thumbnail_path == get_thumbnail_path(event.path)
        exc == IF thumbnail_path \notin DOMAIN fs THEN "none"
               ELSE IF fs[thumbnail_path].tag = "dir" THEN "IsADirectoryError"
               ELSE "none"
    IN  [removed |-> IF thumbnail_path \in DOMAIN fs /\ exc = "none"
                     THEN {thumbnail_path} ELSE {},
         exc |-> exc,
         escaped |-> exc # "none" /\ exc \notin ExceptionClasses,
         msg |-> IF thumbnail_path \notin DOMAIN fs THEN ""
                 ELSE IF exc = "none" THEN "removed" ELSE "remove_error"]

(***************************************************************************)
(* The watched directory, the observer and the user.                       *)
(***************************************************************************)
\* a notification; own marks those caused by the handler's own writes and
\* removals (the handler cannot see the mark)
Event(kind, path, dir, own) == [kind |-> kind, path |-> path, dir |-> dir, own |-> own]

\* the directory with path written (content c) or removed
Written(fs, paths, c) == [n \in DOMAIN fs \cup paths |-> IF n \in paths THEN c ELSE fs[n]]
Removed(fs, paths) == [n \in DOMAIN fs \ paths |-> fs[n]]

\* the created notifications of the files in paths that are new in fs
RECURSIVE Notify(_, _, _)
Notify(kind, paths, own) ==
    IF paths = {} THEN <<>>
    ELSE LET p == CHOOSE x \in paths : TRUE
         IN  <<Event(kind, p, FALSE, own)>> \o Notify(kind, paths \ {p}, own)

NoCall ==
    [kind |-> "none", path |-> "", dir |-> FALSE, own |-> FALSE,
     extractor |-> "none", exc |-> "none", escaped |-> FALSE, wrote |-> {},
     removed |-> {}, read |-> None, msg |-> "", before |-> <<>>, made |-> {}]

(***************************************************************************)
(* EPUB archives.                                                          *)
(***************************************************************************)
ContainerMember == "META-INF/container.xml"

\* an archive from its parts: the container document (or its absence), the
\* package document (or its absence) at opf_path, and the members that hold
\* images
ContainerPart(kind, opf_path) ==
    CASE kind = "missing" -> <<>>
      [] kind = "malformed" -> (ContainerMember :> JunkData)
      [] kind = "norootfile" -> (ContainerMember :> XmlData(<<>>, <<>>, <<>>))
      [] kind = "nofullpath" ->
            (ContainerMember :> XmlData(<<("media-type" :> "application/oebps-package+xml")>>,
                                        <<>>, <<>>))
      [] OTHER -> (ContainerMember :> XmlData(<<("full-path" :> opf_path)>>, <<>>, <<>>))

PackagePart(kind, opf_path, metas, items) ==
    CASE kind = "missing" -> <<>>
      [] kind = "malformed" -> (opf_path :> JunkData)
      [] OTHER -> (opf_path :> XmlData(<<>>, metas, items))

MakeArch(zip, container, opf, opf_path, metas, items, images) ==
    [zip |-> zip,
     entries |-> ContainerPart(container, opf_path)
                 @@ PackagePart(opf, opf_path, metas, items)
                 @@ [m \in images |-> ImageData]]

Meta(name, content) == ("name" :> name) @@ ("content" :> content)
Item(id, href) == ("id" :> id) @@ ("href" :> href)

\* the archive of the spec's example
ExampleArch ==
    MakeArch(TRUE, "ok", "ok", "OEBPS/content.opf",
             <<Meta("cover", "cover-img")>>,
             <<Item("cover-img", "images/cover.jpg")>>,
             {"OEBPS/images/cover.jpg"})

\* the example with one part of its structure broken
BrokenArch(zip, container, opf) ==
    MakeArch(zip, container, opf, "OEBPS/content.opf",
             <<Meta("cover", "cover-img")>>,
             <<Item("cover-img", "images/cover.jpg")>>,
             {"OEBPS/images/cover.jpg", "images/cover.jpg"})

(***************************************************************************)
(* The files the user may put into the directory.  A behaviour draws them  *)
(* from one catalog.                                                       *)
(***************************************************************************)
File(name, content) == [name |-> name, content |-> content]

\* documents that share a stem
DocumentCatalog ==
    {File("a.pdf", PdfContent), File("a.epub", EpubContent(ExampleArch)),
     File("a.jpg", ImageContent), File("a.png", ImageContent),
     File("a_thumbnail.pdf", PdfContent), File("a", DirContent)}

\* names on_created skips, next to a document
IgnoredCatalog ==
    {File(".hidden.pdf", PdfContent), File("notes_thumbnail.png", ImageContent),
     File("a.TMP", JunkContent), File("a.log", JunkContent),
     File("a.pyc", JunkContent), File("old.pdf", DirContent),
     File("notes.pdf", LongPdfContent)}

\* documents whose extraction fails, and a directory in a thumbnail's place
FailureCatalog ==
    {File("b.pdf", PdfContent), File("b_thumbnail.png", DirContent),
     File("c.pdf", LockedContent), File("d.pdf", JunkContent),
     File("e.pdf", EmptyPdfContent), File("b.jpg", JunkContent)}

\* EPUBs whose archive is broken
BrokenEpubCatalog ==
    {File("b.epub", EpubContent(BrokenArch(FALSE, "ok", "ok"))),
     File("c.epub", EpubContent(BrokenArch(TRUE, "missing", "ok"))),
     File("d.epub", EpubContent(BrokenArch(TRUE, "malformed", "ok"))),
     File("e.epub", EpubContent(BrokenArch(TRUE, "norootfile", "ok"))),
     File("f.epub", EpubContent(BrokenArch(TRUE, "nofullpath", "ok"))),
     File("g.epub", EpubContent(BrokenArch(TRUE, "ok", "malformed")))}

\* extensions in upper and mixed case, and extensions no extractor takes
RoutingCatalog ==
    {File("b.PDF", LongPdfContent), File("b.Jpeg", ImageContent),
     File("b.EPUB", EpubContent(ExampleArch)), File("b.GIF", ImageContent),
     File("b.txt", JunkContent), File("b.PNG.bak", ImageContent), File("b", JunkContent)}

Catalogs ==
    {DocumentCatalog, IgnoredCatalog, FailureCatalog, BrokenEpubCatalog, RoutingCatalog}

\* the result of a call handed to a worker thread, before the call has ended
Pending == [done |-> FALSE, exc |-> "none", pages |-> 0, first |-> 0, wrote |-> {}]

\* the observer thread between two handler calls
Idle ==
    [pc |-> "idle", event |-> Event("none", "", FALSE, FALSE), before |-> <<>>,
     made |-> {}, job |-> 0, future |-> Pending, page |-> 0]

\* the observer thread dispatches as long as no handler call raised
ObserverAlive == ~last.escaped

\* the thumbnails on disk that creation events for path wrote
MadeFor(path) == {t \in DOMAIN origin : origin[t] = path}

Init ==
    /\ catalog \in Catalogs
    /\ files = <<>>
    /\ queue = <<>>
    /\ last = NoCall
    /\ origin = <<>>
    /\ opsLeft = MaxUserOps
    /\ thread = Idle
    /\ pool = {}

\* the user puts a file (or a directory) into the watched directory
UserCreate(f) ==
    /\ opsLeft > 0
    /\ Len(queue) < MaxQueue
    /\ f.name \notin DOMAIN files
    /\ files' = Written(files, {f.name}, f.content)
    /\ queue' = Append(queue, Event("created", f.name, f.content.tag = "dir", FALSE))
    /\ opsLeft' = opsLeft - 1
    /\ UNCHANGED <<last, origin, catalog, thread, pool>>

\* the user replaces a file, which the observer reports as a creation
UserRewrite(f) ==
    /\ opsLeft > 0
    /\ Len(queue) < MaxQueue
    /\ f.name \in DOMAIN files
    /\ f.content.tag # "dir"
    /\ files[f.name].tag # "dir"
    /\ files' = Written(files, {f.name}, f.content)
    /\ queue' = Append(queue, Event("created", f.name, FALSE, FALSE))
    /\ origin' = Removed(origin, {f.name})
    /\ opsLeft' = opsLeft - 1
    /\ UNCHANGED <<last, catalog, thread, pool>>

\* the user removes one of their files (or directories)
UserDelete(f) ==
    /\ opsLeft > 0
    /\ Len(queue) < MaxQueue
    /\ f.name \in DOMAIN files
    /\ files' = Removed(files, {f.name})
    /\ queue' = Append(queue, Event("deleted", f.name, files[f.name].tag = "dir", FALSE))
    /\ origin' = Removed(origin, {f.name})
    /\ opsLeft' = opsLeft - 1
    /\ UNCHANGED <<last, catalog, thread, pool>>

\* the observer dispatches the oldest notification to on_created
OnCreated ==
    /\ ObserverAlive
    /\ thread.pc = "idle"
    /\ queue # <<>>
    /\ Head(queue).kind = "created"
    /\ Len(Head(queue).path) <= MaxNameLen
    /\ \E event \in {Head(queue)} : \E r \in {on_created(files, event)} :
            /\ files' = Written(files, r.out.wrote, ImageContent)
            /\ queue' = Tail(queue) \o Notify("created", r.out.wrote \ DOMAIN files, TRUE)
            /\ origin' = Written(origin, r.out.wrote, event.path)
            /\ last' = [kind |-> "created", path |-> event.path, dir |-> event.dir,
                        own |-> event.own, extractor |-> r.extractor,
                        exc |-> r.out.exc, escaped |-> r.out.escaped,
                        wrote |-> r.out.wrote, removed |-> {}, read |-> r.out.read,
                        msg |-> r.out.msg, before |-> files,
                        made |-> MadeFor(event.path)]
    /\ UNCHANGED <<opsLeft, catalog, thread, pool>>

\* the observer dispatches the oldest notification to on_deleted
OnDeleted ==
    /\ ObserverAlive
    /\ thread.pc = "idle"
    /\ queue # <<>>
    /\ Head(queue).kind = "deleted"
    /\ \E event \in {Head(queue)} : \E r \in {on_deleted(files, event)} :
            /\ files' = Removed(files, r.removed)
            /\ queue' = Tail(queue) \o Notify("deleted", r.removed, TRUE)
            /\ origin' = Removed(origin, r.removed)
            /\ last' = [kind |-> "deleted", path |-> event.path, dir |-> event.dir,
                        own |-> event.own, extractor |-> "none",
                        exc |-> r.exc, escaped |-> r.escaped,
                        wrote |-> {}, removed |-> r.removed, read |-> None,
                        msg |-> r.msg, before |-> files,
                        made |-> MadeFor(event.path)]
    /\ UNCHANGED <<opsLeft, catalog, thread, pool>>

Next ==
    \/ \E f \in catalog : UserCreate(f)
    \/ \E f \in catalog : UserRewrite(f)
    \/ \E f \in catalog : UserDelete(f)
    \/ OnCreated
    \/ OnDeleted

Spec == Init /\ [][Next]_vars

(***************************************************************************)
(* generate_epub_thumbnail on its own: the user has one EPUB, book.epub,   *)
(* whose archive is drawn from ArchiveSpace.                               *)
(***************************************************************************)
\* elements a package document may list
MaxMetas == 2
MaxItems == 2
\* changes the user makes to book.epub
MaxEpubOps == 2

\* the sequences over S of length at most n
SeqsUpTo(S, n) == UNION {[1..k -> S] : k \in 0..n}

MetaChoices ==
    {Meta("cover", "c"), ("name" :> "cover"), Meta("viewport", "c"), Meta("cover", "")}
ItemChoices ==
    {Item("c", "images/cover.jpg"), ("id" :> "c"), Item("d", "images/cover.jpg")}
OpfPaths == {"content.opf", "OEBPS/content.opf"}
\* where the archive holds a cover image: under the package document's
\* directory, under the archive root, or nowhere
ImagePlacements == {{"OEBPS/images/cover.jpg"}, {"images/cover.jpg"}, {}}

ArchiveSpace ==
    {BrokenArch(zip, container, opf) :
        zip \in BOOLEAN,
        container \in {"missing", "malformed", "norootfile", "nofullpath", "ok"},
        opf \in {"missing", "malformed", "ok"}}
    \cup
    {MakeArch(TRUE, "ok", "ok", opf_path, metas, items, images) :
        opf_path \in OpfPaths, metas \in SeqsUpTo(MetaChoices, MaxMetas),
        items \in SeqsUpTo(ItemChoices, MaxItems), images \in ImagePlacements}

InitEpub ==
    /\ \E arch \in ArchiveSpace : catalog = {File("book.epub", EpubContent(arch))}
    /\ files = <<>>
    /\ queue = <<>>
    /\ last = NoCall
    /\ origin = <<>>
    /\ opsLeft = MaxEpubOps
    /\ thread = Idle
    /\ pool = {}

SpecEpub == InitEpub /\ [][Next]_vars

(***************************************************************************)
(* The handler call step by step.  on_created runs process_new_file under  *)
(* asyncio.run on the observer thread.  The image and the EPUB extractor   *)
(* await nothing and run to their end in one piece; generate_pdf_thumbnail *)
(* hands convert_from_path and img.save to a worker thread and awaits each.*)
(* The directory changes and notifications arrive while a call waits.      *)
(***************************************************************************)
\* changes the user makes while calls are followed step by step
MaxThreadOps == 3

\* a call a worker thread has been given
Job(id, fn, path) == [id |-> id, fn |-> fn, path |-> path]

\* the worker thread the executor gives the next call to
NextJob(jobs) ==
    CHOOSE n \in 1..(Cardinality(jobs) + 1) : \A j \in jobs : j.id # n

\* await asyncio.to_thread(...) going on without the call having ended
to_thread_returns_at_once(t) == TRUE

\* lines 43 and 52: await asyncio.to_thread(...) goes on when the call has ended
to_thread_returns(t) == t.future.done

\* on_created returns: asyncio.run has ended with the coroutine
Return(t, extractor, out) ==
    /\ last' = [kind |-> "created", path |-> t.event.path, dir |-> t.event.dir,
                own |-> t.event.own, extractor |-> extractor,
                exc |-> out.exc, escaped |-> out.escaped,
                wrote |-> out.wrote, removed |-> {}, read |-> out.read,
                msg |-> out.msg, before |-> t.before, made |-> t.made]
    /\ thread' = Idle

\* a worker thread ends the call it runs; its result goes to the coroutine
\* that awaits it, if one does
Deliver(job, result) ==
    /\ pool' = pool \ {job}
    /\ thread' = IF thread.pc # "idle" /\ thread.job = job.id
                 THEN [thread EXCEPT !.future = result]
                 ELSE thread

\* the observer hands a creation notification to on_created, which gets as
\* far as line 43 and waits for convert_from_path
DispatchPdf ==
    /\ ObserverAlive
    /\ thread.pc = "idle"
    /\ queue # <<>>
    /\ Head(queue).kind = "created"
    /\ Len(Head(queue).path) <= MaxNameLen
    /\ on_created(files, Head(queue)).extractor = "pdf"
    /\ \E id \in {NextJob(pool)} :
            /\ thread' = [pc |-> "convert", event |-> Head(queue), before |-> files,
                          made |-> MadeFor(Head(queue).path), job |-> id,
                          future |-> Pending, page |-> 0]
            /\ pool' = pool \cup {Job(id, "convert_from_path", Head(queue).path)}
    /\ queue' = Tail(queue)
    /\ UNCHANGED <<files, last, origin, opsLeft, catalog>>

\* the observer hands over a creation notification that does not reach the
\* PDF extractor: the call awaits nothing
DispatchDirect ==
    /\ queue # <<>>
    /\ Head(queue).kind = "created"
    /\ on_created(files, Head(queue)).extractor # "pdf"
    /\ OnCreated

\* a worker thread runs convert_from_path to its end
WorkerConvert ==
    /\ \E job \in pool :
            /\ job.fn = "convert_from_path"
            /\ \E images \in {convert_from_path(files, job.path, 1, 1)} :
                    Deliver(job, [done |-> TRUE, exc |-> images.exc,
                                  pages |-> images.pages, first |-> images.first,
                                  wrote |-> {}])
    /\ UNCHANGED <<files, queue, last, origin, opsLeft, catalog>>

\* line 46 on: the coroutine has the page images
AwaitConvert ==
    /\ thread.pc = "convert"
    /\ to_thread_returns(thread)
    /\ \E images \in {thread.future} :
            IF images.exc # "none"
            THEN /\ Return(thread, "pdf",
                        Outcome(images.exc, images.exc \in ExceptionClasses, {}, None,
                                IF images.exc = "PermissionError"
                                THEN "pdf_permission" ELSE "pdf_error"))
                 /\ UNCHANGED pool
            ELSE IF images.pages > 0
            THEN \E id \in {NextJob(pool)} :
                    /\ thread' = [thread EXCEPT !.pc = "save", !.job = id,
                                                !.future = Pending, !.page = images.first]
                    /\ pool' = pool \cup {Job(id, "save", thread.event.path)}
                    /\ UNCHANGED last
            ELSE /\ Return(thread, "pdf", Outcome("none", TRUE, {}, None, "pdf_empty"))
                 /\ UNCHANGED pool
    /\ UNCHANGED <<files, queue, origin, opsLeft, catalog>>

\* a worker thread runs img.save to its end
WorkerSave ==
    \E job \in pool :
        /\ job.fn = "save"
        /\ \E thumbnail_path \in {pdf_thumbnail_path(job.path)} :
           \E exc \in {SaveError(files, thumbnail_path)} :
           \E wrote \in {IF exc = "none" THEN {thumbnail_path} ELSE {}} :
                /\ files' = Written(files, wrote, ImageContent)
                /\ queue' = queue \o Notify("created", wrote \ DOMAIN files, TRUE)
                /\ origin' = Written(origin, wrote, job.path)
                /\ Deliver(job, [done |-> TRUE, exc |-> exc, pages |-> 0, first |-> 0,
                                 wrote |-> wrote])
        /\ UNCHANGED <<last, opsLeft, catalog>>

\* line 53 on: the thumbnail is saved, or the save has raised
AwaitSave ==
    /\ thread.pc = "save"
    /\ to_thread_returns(thread)
    /\ \E saved \in {thread.future} :
            Return(thread, "pdf",
                   Outcome(saved.exc, saved.exc \in ExceptionClasses, saved.wrote,
                           IF saved.exc = "none" THEN PageName(thread.page) ELSE None,
                           IF saved.exc = "none" THEN "pdf_ok" ELSE "pdf_error"))
    /\ UNCHANGED <<files, queue, origin, opsLeft, catalog, pool>>

InitThreads ==
    /\ catalog \in {DocumentCatalog, FailureCatalog}
    /\ files = <<>>
    /\ queue = <<>>
    /\ last = NoCall
    /\ origin = <<>>
    /\ opsLeft = MaxThreadOps
    /\ thread = Idle
    /\ pool = {}

NextThreads ==
    \/ \E f \in catalog : UserCreate(f)
    \/ \E f \in catalog : UserRewrite(f)
    \/ \E f \in catalog : UserDelete(f)
    \/ DispatchPdf
    \/ DispatchDirect
    \/ WorkerConvert
    \/ AwaitConvert
    \/ WorkerSave
    \/ AwaitSave
    \/ OnDeleted

SpecThreads == InitThreads /\ [][NextThreads]_vars

(***************************************************************************)
(* The vocabulary of the specification.                                    *)
(***************************************************************************)
\* the format of a path, by its lower-cased extension
FormatOf(P) ==
    LET ext == Lower(Suffix(P))
    IN  IF ext \in {".png", ".jpg", ".jpeg", ".bmp", ".gif"} THEN "Image"
        ELSE IF ext = ".pdf" THEN "PDF"
        ELSE IF ext = ".epub" THEN "EPUB"
        ELSE "Unsupported"

\* is_thumbnail(path): the name ends with the infix plus the forced extension
IsThumbnail(P) == EndsWith(P, "_thumbnail.png")

\* a supported source document: an image, a PDF or an EPUB that no ignore
\* rule covers
SourceDocument(P) ==
    /\ FormatOf(P) # "Unsupported"
    /\ ~StartsWith(P, ".")
    /\ ~IsThumbnail(P)

\* thumbnail_path_for(P): stem + "_thumbnail", the original extension for an
\* image and ".png" for a PDF or an EPUB
ThumbnailPathFor(P) ==
    Stem(P) \o "_thumbnail" \o (IF FormatOf(P) = "Image" THEN Suffix(P) ELSE ".png")

\* the content of f is one its format's extractor turns into a thumbnail
ExtractionSucceeds(f) ==
    \/ FormatOf(f.name) = "Image" /\ f.content = ImageContent
    \/ FormatOf(f.name) = "PDF" /\ f.content.tag = "pdf"
    \/ FormatOf(f.name) = "EPUB" /\ f.content = EpubContent(ExampleArch)

\* every notification has been dispatched
Quiescent == queue = <<>>

(***************************************************************************)
(* C1. Lifecycle sync: once every notification is processed, each supported*)
(* document whose extraction succeeds has a thumbnail at its thumbnail     *)
(* path if it is in the directory (created and not deleted since), and no  *)
(* thumbnail written for it is left if it is not.  Documents at whose      *)
(* thumbnail path the user keeps a file of their own are left out.         *)
(***************************************************************************)
C1_LifecycleSync ==
    Quiescent =>
        \A f \in catalog :
            (/\ SourceDocument(f.name)
             /\ ExtractionSucceeds(f)
             /\ \A g \in catalog : g.name # ThumbnailPathFor(f.name))
            => IF f.name \in DOMAIN files
               THEN ThumbnailPathFor(f.name) \in DOMAIN files
               ELSE MadeFor(f.name) = {}

(***************************************************************************)
(* C2. Idempotence: a creation event for a supported document, processed   *)
(* while the thumbnail an earlier creation event wrote for it exists,      *)
(* invokes no extractor and writes no file.                                *)
(***************************************************************************)
C2_Idempotent ==
    (/\ last.kind = "created"
     /\ SourceDocument(last.path)
     /\ ~last.dir
     /\ ThumbnailPathFor(last.path) \in last.made)
    => (last.extractor = "none" /\ last.wrote = {})

(***************************************************************************)
(* C3. Deletion reconciliation: a deletion event for a supported document, *)
(* processed while the thumbnail its creation wrote is on disk, removes    *)
(* exactly that thumbnail and no other file.                               *)
(***************************************************************************)
C3_DeletionReconciles ==
    (/\ last.kind = "deleted"
     /\ SourceDocument(last.path)
     /\ ~last.dir
     /\ last.made # {})
    => (last.removed = last.made /\ last.made \cap DOMAIN files = {})

(***************************************************************************)
(* C4. Naming convention: for a supported document, the path the extractor *)
(* writes, the path thumbnail_exists tests and the path get_thumbnail_path *)
(* gives are all the document's thumbnail path.                            *)
(***************************************************************************)
\* the path the extractor of P's format saves to
ExtractorPath(P) ==
    IF FormatOf(P) = "Image" THEN image_thumbnail_path(P)
    ELSE IF FormatOf(P) = "PDF" THEN pdf_thumbnail_path(P)
    ELSE epub_thumbnail_path(P)

C4_NamingConsistent ==
    (last.kind \in {"created", "deleted"} /\ SourceDocument(last.path) /\ ~last.dir)
    => /\ ExtractorPath(last.path) = ThumbnailPathFor(last.path)
       /\ thumbnail_exists_path(last.path) = ThumbnailPathFor(last.path)
       /\ get_thumbnail_path(last.path) = ThumbnailPathFor(last.path)

(***************************************************************************)
(* C5. Own output is no source: the creation notification of a file an     *)
(* extractor wrote invokes no extractor.                                   *)
(***************************************************************************)
C5_OwnOutputIgnored ==
    (last.kind = "created" /\ last.own) => last.extractor = "none"

(***************************************************************************)
(* C6. Ignore rule: a creation notification for a directory, for a path    *)
(* whose lower-cased extension is .pyc, .log or .tmp, for a name starting  *)
(* with "." or for a name ending in "_thumbnail.png" invokes no extractor  *)
(* and writes and removes no file.                                         *)
(***************************************************************************)
IgnoreRuleCovers(call) ==
    \/ call.dir
    \/ Lower(Suffix(call.path)) \in {".pyc", ".log", ".tmp"}
    \/ StartsWith(call.path, ".")
    \/ IsThumbnail(call.path)

C6_IgnoreRule ==
    (last.kind = "created" /\ IgnoreRuleCovers(last))
    => (last.extractor = "none" /\ last.wrote = {} /\ last.removed = {})

\* the creation of .hidden.pdf has been skipped
C6_Witness ==
    /\ last.kind = "created"
    /\ last.path = ".hidden.pdf"
    /\ ".hidden.pdf" \in DOMAIN files
    /\ last.extractor = "none"

(***************************************************************************)
(* C7. No cascade: a deletion notification for a path that is itself a     *)
(* thumbnail (its name ends in "_thumbnail.png") removes no file.          *)
(***************************************************************************)
C7_NoCascade ==
    (last.kind = "deleted" /\ IsThumbnail(last.path)) => last.removed = {}

(***************************************************************************)
(* C8. Error containment: no failure while an event is processed leaves    *)
(* on_created or on_deleted, so the observer goes on dispatching; and an   *)
(* EPUB whose archive is structurally broken gets no thumbnail.            *)
(***************************************************************************)
\* the archive is corrupt, or its container or package document is missing,
\* malformed or lacks the rootfile or its full-path
StructurallyBroken(arch) ==
    \/ ~arch.zip
    \/ ContainerMember \notin DOMAIN arch.entries
    \/ LET container == arch.entries[ContainerMember]
       IN  \/ ~container.xml
           \/ container.rootfiles = <<>>
           \/ "full-path" \notin DOMAIN container.rootfiles[1]
           \/ LET opf_path == container.rootfiles[1]["full-path"]
              IN  \/ opf_path \notin DOMAIN arch.entries
                  \/ ~arch.entries[opf_path].xml

\* the EPUB the last call was about, as the call found it
LastArch == last.before[last.path].arch

ExpectedMember(opf_path, href) ==
    LET i == RFind(opf_path, "/")
    IN  IF i = 0 THEN href ELSE SubSeq(opf_path, 1, i) \o href

\* the path of the package document of a well-formed archive
OpfPathOf(arch) == arch.entries[ContainerMember].rootfiles[1]["full-path"]

\* conditions (a) and (b): some meta and some item declare a cover that the
\* archive holds
CoverDeclared(arch) ==
    LET opf_path == OpfPathOf(arch)
        opf == arch.entries[opf_path]
    IN  \E i \in 1..Len(opf.metas), j \in 1..Len(opf.items) :
            LET meta == opf.metas[i]
                item == opf.items[j]
            IN  /\ Get(meta, "name") = "cover"
                /\ Truthy(Get(meta, "content"))
                /\ Get(item, "id") = Get(meta, "content")
                /\ Truthy(Get(item, "href"))
                /\ ExpectedMember(opf_path, Get(item, "href")) \in DOMAIN arch.entries
                /\ arch.entries[ExpectedMember(opf_path, Get(item, "href"))].img

\* the last call ran the EPUB extractor on a file that was there
EpubCall == last.extractor = "epub" /\ last.path \in DOMAIN last.before

C9_CoverResolution ==
    (EpubCall /\ ~StructurallyBroken(LastArch))
    => /\ last.wrote # {} <=> CoverDeclared(LastArch)
       /\ ~CoverDeclared(LastArch) => ~last.escaped

(***************************************************************************)
(* C10. EPUB href resolution: the cover is read from the member obtained   *)
(* by joining the directory of the package document with the item's href,  *)
(* not from the archive root, and the thumbnail is written at              *)
(* <archive-stem>_thumbnail.png.                                           *)
(***************************************************************************)
\* the href the extractor resolved
ResolvedHref(arch) ==
    LET opf == arch.entries[OpfPathOf(arch)]
    IN  find_cover_href(opf, find_cover_id(opf))

C10_HrefResolution ==
    (EpubCall /\ ~StructurallyBroken(LastArch) /\ Truthy(find_cover_id(LastArch.entries[OpfPathOf(LastArch)]))
        /\ Truthy(ResolvedHref(LastArch)))
    => LET member == ExpectedMember(OpfPathOf(LastArch), ResolvedHref(LastArch))
           held == member \in DOMAIN LastArch.entries /\ LastArch.entries[member].img
       IN  IF held
           THEN /\ last.read = member
                /\ last.wrote = {Stem(last.path) \o "_thumbnail.png"}
           ELSE last.wrote = {}

\* the cover of an archive whose package document is OEBPS/content.opf has
\* been read from OEBPS/images/cover.jpg
C10_Witness ==
    /\ EpubCall
    /\ last.read = "OEBPS/images/cover.jpg"
    /\ last.wrote = {"book_thumbnail.png"}
    /\ "book_thumbnail.png" \in DOMAIN files

(***************************************************************************)
(* C11. Document routing: a creation event that no ignore rule covers      *)
(* invokes at most one extractor, the one of the path's lower-cased        *)
(* extension (image for .png/.jpg/.jpeg/.bmp/.gif, PDF for .pdf, EPUB for  *)
(* .epub, in any letter case), and does invoke it when the existence test  *)
(* finds no thumbnail; for every other extension no extractor is invoked,  *)
(* no file is written or removed and nothing is reported.                  *)
(***************************************************************************)
\* the extractor of a format
ExtractorOf(format) ==
    CASE format = "Image" -> "image"
      [] format = "PDF" -> "pdf"
      [] format = "EPUB" -> "epub"
      [] OTHER -> "none"

C11_Routing ==
    (last.kind = "created" /\ ~IgnoreRuleCovers(last))
    => /\ last.extractor \in {"none", ExtractorOf(FormatOf(last.path))}
       /\ Cardinality(last.wrote) <= 1
       /\ (/\ thumbnail_exists_path(last.path) \notin DOMAIN last.before
           /\ ThumbnailPathFor(last.path) \notin DOMAIN last.before)
          => last.extractor = ExtractorOf(FormatOf(last.path))
       /\ FormatOf(last.path) = "Unsupported"
          => (last.extractor = "none" /\ last.wrote = {} /\ last.removed = {}
              /\ last.exc = "none" /\ last.msg \in {"", "skip_exists"})

\* b.PDF has gone to the PDF extractor, which wrote b_thumbnail.png
C11_Witness ==
    /\ last.kind = "created"
    /\ last.path = "b.PDF"
    /\ last.extractor = "pdf"
    /\ last.wrote = {"b_thumbnail.png"}
    /\ "b_thumbnail.png" \in DOMAIN files

(***************************************************************************)
(* C12. Serial processing: a creation event's extraction and write,        *)
(* the PDF rasterization and save on a worker thread included, have ended  *)
(* when on_created returns and the next event is taken; at no point are    *)
(* two extractions in flight, so no two calls work on one thumbnail file   *)
(* at the same time.                                                       *)
(***************************************************************************)
C12_Serial ==
    /\ Cardinality(pool) <= 1
    /\ thread.pc = "idle" => pool = {}
    /\ \A job \in pool :
            /\ thread.pc = (IF job.fn = "save" THEN "save" ELSE "convert")
            /\ thread.job = job.id
            /\ thread.event.path = job.path
            /\ ~thread.future.done
    /\ (last.kind = "created" /\ last.extractor = "pdf" /\ last.msg = "pdf_ok")
       => last.wrote = {pdf_thumbnail_path(last.path)}

\* a worker thread is saving the thumbnail of a PDF while a notification
\* waits in the queue
C12_Witness ==
    /\ thread.pc = "save"
    /\ \E job \in pool : job.fn = "save" /\ job.id = thread.job
    /\ \E i \in 1..Len(queue) : ~queue[i].own

(***************************************************************************)
(* C13. PDF extraction: the PDF extractor asks the rasterizer for page 1   *)
(* and no other page; when the rasterizer yields no page (a corrupt, an    *)
(* unreadable or a zero-page document) the failure is reported and no file *)
(* is written; otherwise exactly one file is written, at                   *)
(* stem + "_thumbnail.png" next to the PDF, and it shows page 1.           *)
(***************************************************************************)
\* the last call ran the PDF extractor on a file that was there
PdfCall == last.extractor = "pdf" /\ last.path \in DOMAIN last.before

\* the document of the last call has a first page the rasterizer renders
YieldsPage == last.before[last.path].tag = "pdf" /\ last.before[last.path].pages >= 1

\* the failure was reported and left no file
ReportedNoFile ==
    /\ last.wrote = {}
    /\ last.msg \in {"pdf_empty", "pdf_error", "pdf_permission"}
    /\ ~last.escaped

\* one file was written, the thumbnail of page 1
WrotePageOne ==
    /\ last.wrote = {Stem(last.path) \o "_thumbnail.png"}
    /\ last.read = "page 1"
    /\ last.msg = "pdf_ok"

C13_PdfExtraction ==
    PdfCall => IF YieldsPage THEN WrotePageOne ELSE ReportedNoFile

(***************************************************************************)
(* C13, amended: as above, but when the rasterizer yields page 1 and the   *)
(* save itself fails (the thumbnail path cannot be written), the failure   *)
(* is reported and no file is written.                                     *)
(***************************************************************************)
\* the thumbnail path of the last call was a directory when the call began
SaveRefused ==
    LET thumbnail_path == Stem(last.path) \o "_thumbnail.png"
    IN  thumbnail_path \in DOMAIN last.before /\ last.before[thumbnail_path].tag = "dir"

C13_PdfExtractionUnlessSaveFails ==
    PdfCall => IF YieldsPage /\ ~SaveRefused THEN WrotePageOne ELSE ReportedNoFile

\* the thumbnail of a PDF of three pages has been written from page 1
C13_Witness ==
    /\ PdfCall
    /\ last.before[last.path].pages = 3
    /\ WrotePageOne
    /\ Stem(last.path) \o "_thumbnail.png" \in DOMAIN files

(***************************************************************************)
(* C14. Quiescence: with the watcher notified of the handler's own writes, *)
(* the creation of a single supported document leads to one thumbnail and  *)
(* no more: the handler writes one file for it, and the notification of    *)
(* that file starts no further generation.                                 *)
(***************************************************************************)
\* the user has made one change, the creation of a supported document whose
\* extraction succeeds
SingleDocument ==
    /\ opsLeft = MaxUserOps - 1
    /\ \E f \in catalog :
            /\ f.name \in DOMAIN files
            /\ SourceDocument(f.name)
            /\ ExtractionSucceeds(f)

C14_Quiescence ==
    SingleDocument =>
        /\ Cardinality(DOMAIN origin) <= 1
        /\ Quiescent => Cardinality(DOMAIN origin) = 1

(***************************************************************************)
(* C15. Non-interference between documents: a handler call for a path Q    *)
(* neither writes (creates or overwrites) nor removes the thumbnail that   *)
(* was written for another path P of the directory while P is still there. *)
(***************************************************************************)
\* the thumbnails on disk written for paths other than Q that still exist
ThumbnailsOfOthers(Q) ==
    {t \in DOMAIN origin : origin[t] # Q /\ origin[t] \in DOMAIN files}

\* this step is a handler call (the user's steps count opsLeft down)
HandlerCall == opsLeft' = opsLeft /\ last'.kind \in {"created", "deleted"}

C15_NonInterference ==
    [][HandlerCall =>
        ThumbnailsOfOthers(last'.path) \cap (last'.wrote \cup last'.removed) = {}]_vars

(***************************************************************************)
(* C16. Frame of the handlers: a call of on_created for P removes no file  *)
(* and writes at most one file, never P itself; a call of on_deleted for P *)
(* creates no file and removes at most one file, never P itself; every     *)
(* other file of the directory is as it was before the call.               *)
(***************************************************************************)
\* the files other than those in paths are the same before and after the step
Untouched(paths) ==
    \A n \in (DOMAIN files \cup DOMAIN files') \ paths :
        n \in DOMAIN files /\ n \in DOMAIN files' /\ files'[n] = files[n]

FrameOfCreated ==
    /\ last'.removed = {}
    /\ DOMAIN files \subseteq DOMAIN files'
    /\ Cardinality(last'.wrote) <= 1
    /\ last'.path \notin last'.wrote
    /\ Untouched(last'.wrote)

FrameOfDeleted ==
    /\ last'.wrote = {}
    /\ DOMAIN files' \subseteq DOMAIN files
    /\ Cardinality(last'.removed) <= 1
    /\ last'.path \notin last'.removed
    /\ DOMAIN files \ DOMAIN files' = last'.removed
    /\ Untouched(last'.removed)

C16_Frame ==
    [][HandlerCall =>
        IF last'.kind = "created" THEN FrameOfCreated ELSE FrameOfDeleted]_vars

\* the deletion of notes.pdf has removed its thumbnail and left a.log, which
\* was in the directory when the call began
C16_Witness ==
    /\ last.kind = "deleted"
    /\ last.path = "notes.pdf"
    /\ last.removed = {"notes_thumbnail.png"}
    /\ "a.log" \in DOMAIN last.before
    /\ "a.log" \in DOMAIN files
    /\ "notes_thumbnail.png" \notin DOMAIN files

====
